---- MODULE Spec2Model ----
(***************************************************************************)
(* Model of backend/app.py of banana-slides: the on-connect hook that      *)
(* tunes SQLite connections (set_sqlite_pragma), the application factory   *)
(* (create_app), the additive settings-table migration                     *)
(* (_ensure_settings_columns), the settings loader                         *)
(* (_load_settings_to_config) and the output-language route                *)
(* (get_output_language).                                                  *)
(*                                                                         *)
(* Every behaviour runs one entry point (variable entry): the factory, a   *)
(* direct call of the migration (alone, or next to a second process that   *)
(* runs it on the same store), a direct call of the loader (repeated after *)
(* settings updates), or the connection pool creating connections.  Store  *)
(* operations (create_all, schema inspection, ALTER TABLE, the read of the *)
(* Settings row, a PRAGMA) either succeed or raise; which, is chosen       *)
(* nondeterministically.                                                   *)
(***************************************************************************)
EXTENDS Naturals, Integers, Sequences, FiniteSets, TLC

VARIABLES
    entry,        \* the entry point this behaviour runs
    pc,           \* the statement the entry point is at
    raised,       \* the exception that escaped the entry point, or NoException
    tableExists,  \* whether the settings table exists in the store
    columns,      \* the settings table's committed columns (names)
    pending,      \* columns added in db.session's open transaction
    colTypes,     \* the declared type of every committed or pending column
    existing,     \* existing_columns, the snapshot taken by the inspector
    idx,          \* position of the loop over required_columns (1-based)
    run,          \* number of the current run of _ensure_settings_columns
    startCols,    \* history: the table's columns before the first run
    initCols,     \* history: the table's columns when the current run began
    inspected,    \* history: the current run's schema inspection succeeded
    alters,       \* history: columns the current run issued ALTER TABLE for
    commits,      \* history: db.session.commit() calls of the current run
    failed,       \* history: columns whose ALTER TABLE raised in this run
    otherFailed,  \* history: those of failed that were not on the table
    prev,         \* history: inspected and failed of the previous run
    settings,     \* the persisted Settings row
    config,       \* app.config
    cfgBefore,    \* history: app.config when the loader was last entered
    readFailed,   \* history: the loader's last read of the row raised
    envCfg,       \* history: app.config as built from Config and the environment
    loads,        \* history: number of calls of _load_settings_to_config
    calls,        \* history: the calls made and left so far, in order
    peer,         \* a second process running _ensure_settings_columns
    response,     \* what get_output_language last returned
    conns,        \* the connections the pool has created
    logs          \* the log records written so far

vars == << entry, pc, raised, tableExists, columns, pending, colTypes,
           existing, idx, run, startCols, initCols, inspected, alters,
           commits, failed, otherFailed, prev, settings, config, cfgBefore,
           readFailed, envCfg, loads, calls, peer, response, conns, logs >>

storeVars == << tableExists, columns, pending, colTypes >>
ensureVars == << existing, idx, run, startCols, initCols, inspected, alters,
                 commits, failed, otherFailed, prev >>
loadVars == << config, cfgBefore, readFailed, envCfg, loads >>

(***************************************************************************)
(* Bounds of the model.                                                    *)
(***************************************************************************)
\* how many times _ensure_settings_columns is called in a row
MaxRuns == 2
\* how many times _load_settings_to_config is called in a row
MaxLoads == 2
\* how many required columns the table lacks when two processes start on it
MaxMissing == 3
\* how many connections the pool creates
MaxConns == 2
\* how many statements the application runs on a released connection
MaxUse == 1

(***************************************************************************)
(* Exceptions and except clauses.                                          *)
(***************************************************************************)
\* no exception has escaped: exc is the class, origin the call that raised it
NoException == [exc |-> "none", origin |-> ""]
\* no exception is pending
NoPending == "none"

\* The classes an exception is an instance of (itself and its bases).
Ancestors(e) ==
    CASE e = "OperationalError" -> {"OperationalError", "SQLAlchemyError", "Exception"}
      [] e = "NoSuchTableError" -> {"NoSuchTableError", "SQLAlchemyError", "Exception"}
      [] e = "sqlite3.OperationalError" -> {"sqlite3.OperationalError", "Exception"}
      [] OTHER -> {e}

\* `except handler:` catches e; the handler "none" stands for no except clause.
Catches(handler, e) == handler \in Ancestors(e)

\* except Exception as e (create_app, around create_all and the migration)
CreateAppHandler == "Exception"
\* except Exception as e (_ensure_settings_columns, around the whole body)
EnsureOuterHandlerNone == "none"
EnsureOuterHandlerNarrow == "NoSuchTableError"
EnsureOuterHandler == "Exception"
\* except Exception as col_error (_ensure_settings_columns, around one ALTER)
ColumnHandlerNone == "none"
ColumnHandler == "Exception"
\* except Exception as e (_load_settings_to_config)
LoadHandlerNone == "none"
LoadHandlerNarrow == "NoSuchTableError"
LoadHandler == "Exception"
\* except SQLAlchemyError as db_error (get_output_language)
LanguageHandlerNone == "none"
LanguageHandler == "SQLAlchemyError"
\* set_sqlite_pragma has try/finally and no except clause
HookHandlerSwallow == "Exception"
HookHandler == "none"

(***************************************************************************)
(* The settings table.                                                     *)
(***************************************************************************)
\* required_columns, in the order the dict declares them
required_columns ==
    << "baidu_ocr_api_key", "output_language", "mineru_token",
       "image_caption_model", "mineru_api_base", "text_model", "image_model" >>

RequiredSet == {required_columns[i] : i \in 1..Len(required_columns)}

\* the column_type the dict gives each required column; the other columns
\* have the type the Settings model declares
ColumnType(c) ==
    CASE c = "baidu_ocr_api_key" -> "VARCHAR(500)"
      [] c = "output_language" -> "VARCHAR(10) DEFAULT 'zh'"
      [] c = "mineru_token" -> "VARCHAR(500)"
      [] c = "image_caption_model" -> "VARCHAR(100)"
      [] c = "mineru_api_base" -> "VARCHAR(255)"
      [] c = "text_model" -> "VARCHAR(100)"
      [] c = "image_model" -> "VARCHAR(100)"
      [] OTHER -> "model"

\* the types of the columns of a table that was created from the model
TypesOf(cols) == [c \in cols |-> ColumnType(c)]

\* the columns _load_settings_to_config reads, present in every version
BaseColumns ==
    {"ai_provider_format", "api_base_url", "api_key", "image_resolution",
     "image_aspect_ratio", "max_description_workers", "max_image_workers"}

\* columns of the table that no code of this file names
LegacyColumns == {"legacy_note"}

\* the table db.create_all() creates when there is none: the current model
ModelColumns == BaseColumns \cup RequiredSet

\* the column sets an already existing settings table may have
TableShapes ==
    {BaseColumns \cup S \cup X : S \in SUBSET RequiredSet, X \in SUBSET LegacyColumns}

(***************************************************************************)
(* Control flow between the functions.                                     *)
(***************************************************************************)
Goto(target, e, origin) ==
    /\ pc' = target
    /\ raised' = IF target = "raised" THEN [exc |-> e, origin |-> origin] ELSE raised

\* where control goes when _ensure_settings_columns returns
EnsureReturns(en) == IF en = "create_app" THEN "load_settings" ELSE "returned"

\* where control goes when e is raised inside create_app's try block
InitRaises(e) ==
    IF Catches(CreateAppHandler, e) THEN "load_settings" ELSE "raised"

\* where control goes when e is raised inside _ensure_settings_columns' try
EnsureRaises(en, e) ==
    IF Catches(EnsureOuterHandler, e) THEN EnsureReturns(en)
    ELSE IF en = "create_app" THEN InitRaises(e) ELSE "raised"

\* the log records written while e travels from the body of
\* _ensure_settings_columns to the except clause that catches it
EnsureRaiseLogs(en, e) ==
    IF Catches(EnsureOuterHandler, e)
    THEN {<<"warning", "Could not check/add settings columns", "">>}
    ELSE IF en = "create_app" /\ Catches(CreateAppHandler, e)
         THEN {<<"error", "Database initialization failed", "">>}
         ELSE {}

\* how _ensure_settings_columns is left when e is raised inside its try
EnsureExit(e) ==
    IF Catches(EnsureOuterHandler, e) THEN "ensure:return" ELSE "ensure:raise"

\* the call _ensure_settings_columns(app): a new run begins on table cols
EnsureCalled(cols) ==
    /\ run' = run + 1
    /\ startCols' = IF run = 0 THEN cols ELSE startCols
    /\ initCols' = cols
    /\ prev' = [inspected |-> inspected, failed |-> failed]
    /\ inspected' = FALSE
    /\ existing' = {}
    /\ idx' = 1
    /\ alters' = <<>>
    /\ commits' = 0
    /\ failed' = {}
    /\ otherFailed' = {}

(***************************************************************************)
(* _ensure_settings_columns                                                *)
(***************************************************************************)
\* inspector.get_columns('settings'): the column names, or an exception
InspectOutcomes ==
    IF tableExists THEN {"ok", "OperationalError"}
    ELSE {"NoSuchTableError", "OperationalError"}

\* if column_name not in existing_columns
NeedsAddAlways(c, seen) == TRUE
NeedsAddInverted(c, seen) == c \in seen
NeedsAdd(c, seen) == c \notin seen

\* ALTER TABLE settings ADD COLUMN c: SQLite refuses a column that exists
AlterOutcomes(c) ==
    IF tableExists /\ c \notin columns \cup pending
    THEN {"ok", "OperationalError"}
    ELSE {"OperationalError"}

\* db.session and the table it writes to: the committed columns, the columns
\* of the open transaction, and the type of each
Session == [table |-> columns, pending |-> pending, types |-> colTypes]

\* db.session.execute(text("ALTER TABLE settings ADD COLUMN c type"))
Execute(st, c) ==
    [st EXCEPT !.pending = st.pending \cup {c},
               !.types = [x \in DOMAIN st.types \cup {c} |->
                             IF x = c THEN ColumnType(c) ELSE st.types[x]]]

\* db.session.commit()
CommitNothing(st) == st
Commit(st) ==
    [st EXCEPT !.table = st.table \cup st.pending, !.pending = {}]

\* db.session.rollback(): the open transaction is undone, nothing else
Rollback(st) ==
    [st EXCEPT !.pending = {}, !.types = [x \in st.table |-> st.types[x]]]

\* what the loop body does for column c in a run whose snapshot is seen:
\* nothing, or an ALTER and its outcome
OutcomesFor(c, seen) == IF NeedsAdd(c, seen) THEN AlterOutcomes(c) ELSE {"skip"}

\* what the loop body does for column c: nothing, or an ALTER and its outcome
ColumnOutcomes(c) == OutcomesFor(c, existing)

\* inspector = inspect(db.engine); existing_columns = {...}
Inspect ==
    /\ pc = "ensure_inspect"
    /\ \E out \in InspectOutcomes :
         IF out = "ok"
         THEN /\ existing' = columns
              /\ inspected' = TRUE
              /\ idx' = 1
              /\ pc' = "ensure_columns"
              /\ UNCHANGED << raised, logs >>
              /\ UNCHANGED calls
         ELSE /\ Goto(EnsureRaises(entry, out), out, "inspect")
              /\ logs' = logs \cup EnsureRaiseLogs(entry, out)
              /\ calls' = Append(calls, EnsureExit(out))
              /\ UNCHANGED << existing, inspected, idx >>
    /\ UNCHANGED << entry, storeVars, run, startCols, initCols, alters, commits,
                    failed, otherFailed, prev, settings, loadVars, peer,
                    response, conns >>

\* one iteration of: for column_name, column_type in required_columns.items()
ColumnStep ==
    /\ pc = "ensure_columns"
    /\ \E out \in ColumnOutcomes(required_columns[idx]) :
         LET c == required_columns[idx]
             exc == out \notin {"skip", "ok"}
             caught == exc /\ Catches(ColumnHandler, out)
             last == idx = Len(required_columns)
             after == IF last THEN EnsureReturns(entry) ELSE "ensure_columns"
             st == CASE out = "ok" -> Commit(Execute(Session, c))
                     [] caught -> Rollback(Session)
                     [] OTHER -> Session
         IN  /\ alters' = IF out = "skip" THEN alters ELSE Append(alters, c)
             /\ columns' = st.table
             /\ pending' = st.pending
             /\ colTypes' = st.types
             /\ commits' = IF out = "ok" THEN commits + 1 ELSE commits
             /\ failed' = IF exc THEN failed \cup {c} ELSE failed
             /\ otherFailed' = IF exc /\ c \notin columns
                               THEN otherFailed \cup {c} ELSE otherFailed
             /\ calls' = IF exc /\ ~caught THEN Append(calls, EnsureExit(out))
                         ELSE IF last THEN Append(calls, "ensure:return")
                         ELSE calls
             /\ IF exc /\ ~caught
                THEN /\ Goto(EnsureRaises(entry, out), out, "alter_table")
                     /\ idx' = idx
                     /\ logs' = logs
                           \cup {<<"info", "Adding missing column", c>>}
                           \cup EnsureRaiseLogs(entry, out)
                ELSE /\ Goto(after, out, "alter_table")
                     /\ idx' = idx + 1
                     /\ logs' = logs \cup
                          CASE out = "skip" -> {}
                            [] out = "ok" ->
                                 {<<"info", "Adding missing column", c>>,
                                  <<"info", "Successfully added column", c>>}
                            [] OTHER ->
                                 {<<"info", "Adding missing column", c>>,
                                  <<"warning", "Could not add column", c>>}
    /\ UNCHANGED << entry, tableExists, existing, run, startCols, initCols,
                    inspected, prev, settings, loadVars, peer, response, conns >>

\* _ensure_settings_columns(app) called again, right after it returned
ConvergeAgain ==
    /\ entry = "_ensure_settings_columns"
    /\ pc = "returned"
    /\ run < MaxRuns
    /\ EnsureCalled(columns)
    /\ pc' = "ensure_inspect"
    /\ calls' = Append(calls, "ensure:enter")
    /\ UNCHANGED << entry, raised, storeVars, settings, loadVars, peer,
                    response, conns, logs >>

(***************************************************************************)
(* A second process that starts against the same store file and runs       *)
(* _ensure_settings_columns at the same time.  It has its own snapshot,    *)
(* loop position and db.session; the table is shared.  SQLite lets one     *)
(* connection write at a time, so an ALTER TABLE and its commit, or its     *)
(* failure and the rollback, are one step for the other process.           *)
(***************************************************************************)
\* the second process has just entered _ensure_settings_columns
PeerEntered ==
    [pc |-> "ensure_inspect", existing |-> {}, idx |-> 1, alters |-> <<>>,
     failed |-> {}, otherFailed |-> {}, inspected |-> FALSE]

\* where the second process is after e was raised inside the outer try
PeerRaises(e) == IF Catches(EnsureOuterHandler, e) THEN "returned" ELSE "raised"

\* the second process: inspector = inspect(db.engine); existing_columns = {...}
PeerInspect ==
    /\ peer.pc = "ensure_inspect"
    /\ \E out \in InspectOutcomes :
         IF out = "ok"
         THEN /\ peer' = [peer EXCEPT !.existing = columns, !.inspected = TRUE,
                                      !.idx = 1, !.pc = "ensure_columns"]
              /\ logs' = logs
         ELSE /\ peer' = [peer EXCEPT !.pc = PeerRaises(out)]
              /\ logs' = logs \cup EnsureRaiseLogs("_ensure_settings_columns", out)
    /\ UNCHANGED << entry, pc, raised, storeVars, ensureVars, settings, loadVars,
                    calls, response, conns >>

\* the second process: one iteration of the loop over required_columns
PeerColumnStep ==
    /\ peer.pc = "ensure_columns"
    /\ \E out \in OutcomesFor(required_columns[peer.idx], peer.existing) :
         LET c == required_columns[peer.idx]
             exc == out \notin {"skip", "ok"}
             caught == exc /\ Catches(ColumnHandler, out)
             last == peer.idx = Len(required_columns)
             own == [table |-> columns, pending |-> {}, types |-> colTypes]
             st == CASE out = "ok" -> Commit(Execute(own, c))
                     [] caught -> Rollback(own)
                     [] OTHER -> own
         IN  /\ columns' = st.table
             /\ colTypes' = [x \in st.table |-> st.types[x]]
             /\ peer' = [peer EXCEPT
                    !.alters = IF out = "skip" THEN @ ELSE Append(@, c),
                    !.failed = IF exc THEN @ \cup {c} ELSE @,
                    !.otherFailed = IF exc /\ c \notin columns THEN @ \cup {c} ELSE @,
                    !.idx = IF exc /\ ~caught THEN @ ELSE @ + 1,
                    !.pc = IF exc /\ ~caught THEN PeerRaises(out)
                           ELSE IF last THEN "returned" ELSE "ensure_columns"]
             /\ logs' = logs
                  \cup (IF out = "skip" THEN {}
                        ELSE {<<"info", "Adding missing column", c>>})
                  \cup (IF out = "ok"
                        THEN {<<"info", "Successfully added column", c>>} ELSE {})
                  \cup (IF caught
                        THEN {<<"warning", "Could not add column", c>>} ELSE {})
                  \cup (IF exc /\ ~caught
                        THEN EnsureRaiseLogs("_ensure_settings_columns", out)
                        ELSE {})
    /\ UNCHANGED << entry, pc, raised, tableExists, pending, ensureVars, settings,
                    loadVars, calls, response, conns >>

(***************************************************************************)
(* The Settings row and app.config.                                        *)
(***************************************************************************)
\* Python's None, the value of a NULL column
None == "<None>"

\* the language codes get_output_language documents
Languages == {"zh", "ja", "en", "auto"}

\* Config.OUTPUT_LANGUAGE, the default of get_output_language
ConfigOutputLanguage == "zh"

\* the image and worker settings a row may carry
ImageProfiles ==
    { [image_resolution |-> "2K", image_aspect_ratio |-> "16:9",
       max_description_workers |-> 5, max_image_workers |-> 8],
      [image_resolution |-> "4K", image_aspect_ratio |-> "4:3",
       max_description_workers |-> 3, max_image_workers |-> 2],
      [image_resolution |-> None, image_aspect_ratio |-> "",
       max_description_workers |-> 0, max_image_workers |-> 0] }

\* the rows Settings.get_settings() may return
SettingsRows ==
    { [ai_provider_format |-> f, api_base_url |-> b, api_key |-> k,
       image_resolution |-> p.image_resolution,
       image_aspect_ratio |-> p.image_aspect_ratio,
       max_description_workers |-> p.max_description_workers,
       max_image_workers |-> p.max_image_workers,
       output_language |-> l] :
        f \in {None, "", "openai"},
        b \in {None, "", "https://db.example/v1"},
        k \in {None, "", "db-k"},
        p \in ImageProfiles,
        l \in Languages }

ConfigKeys ==
    {"AI_PROVIDER_FORMAT", "GOOGLE_API_BASE", "OPENAI_API_BASE",
     "GOOGLE_API_KEY", "OPENAI_API_KEY", "DEFAULT_RESOLUTION",
     "DEFAULT_ASPECT_RATIO", "MAX_DESCRIPTION_WORKERS", "MAX_IMAGE_WORKERS",
     "SQLALCHEMY_DATABASE_URI", "UPLOAD_FOLDER", "CORS_ORIGINS"}

\* app.config after from_object(Config) and the path and CORS overrides,
\* with credentials supplied by the environment
EnvSupplied ==
    [k \in ConfigKeys |->
        CASE k = "AI_PROVIDER_FORMAT" -> "gemini"
          [] k = "GOOGLE_API_BASE" -> "https://env-google.example"
          [] k = "OPENAI_API_BASE" -> "https://env-openai.example"
          [] k = "GOOGLE_API_KEY" -> "env-k"
          [] k = "OPENAI_API_KEY" -> "env-k"
          [] k = "DEFAULT_RESOLUTION" -> "1K"
          [] k = "DEFAULT_ASPECT_RATIO" -> "1:1"
          [] k = "MAX_DESCRIPTION_WORKERS" -> 4
          [] k = "MAX_IMAGE_WORKERS" -> 4
          [] k = "SQLALCHEMY_DATABASE_URI" -> "sqlite:///instance/database.db"
          [] k = "UPLOAD_FOLDER" -> "uploads"
          [] OTHER -> "http://localhost:3000"]

\* the same with no credentials in the environment
EnvBare ==
    [EnvSupplied EXCEPT !["GOOGLE_API_BASE"] = "", !["OPENAI_API_BASE"] = "",
                        !["GOOGLE_API_KEY"] = "", !["OPENAI_API_KEY"] = ""]

\* the same with a different key for each provider
EnvSplit ==
    [EnvSupplied EXCEPT !["GOOGLE_API_KEY"] = "env-gk", !["OPENAI_API_KEY"] = "env-ok"]

EnvConfigs == {EnvSupplied, EnvBare, EnvSplit}

\* Python truthiness of a string or None
Truthy(v) == v # None /\ v # ""

(***************************************************************************)
(* _load_settings_to_config                                                *)
(***************************************************************************)
\* Settings.get_settings(): the row, or a store error.  The query selects
\* every column of the model, so it fails while one is missing.
ReadOutcomes ==
    IF tableExists /\ ModelColumns \subseteq columns
    THEN {"ok", "OperationalError"}
    ELSE {"OperationalError"}

\* if settings.ai_provider_format: app.config['AI_PROVIDER_FORMAT'] = ...
SyncProviderFormatIfNotNone(cfg, s) ==
    IF s.ai_provider_format # None
    THEN [cfg EXCEPT !["AI_PROVIDER_FORMAT"] = s.ai_provider_format]
    ELSE cfg
SyncProviderFormat(cfg, s) ==
    IF Truthy(s.ai_provider_format)
    THEN [cfg EXCEPT !["AI_PROVIDER_FORMAT"] = s.ai_provider_format]
    ELSE cfg

\* if settings.api_base_url is not None: both API bases are set to it
SyncApiBaseGoogleOnly(cfg, s) ==
    IF s.api_base_url # None
    THEN [cfg EXCEPT !["GOOGLE_API_BASE"] = s.api_base_url]
    ELSE cfg
SyncApiBase(cfg, s) ==
    IF s.api_base_url # None
    THEN [cfg EXCEPT !["GOOGLE_API_BASE"] = s.api_base_url,
                     !["OPENAI_API_BASE"] = s.api_base_url]
    ELSE cfg

\* if settings.api_key is not None: both API keys are set to it
SyncApiKeyIfTruthy(cfg, s) ==
    IF Truthy(s.api_key)
    THEN [cfg EXCEPT !["GOOGLE_API_KEY"] = s.api_key,
                     !["OPENAI_API_KEY"] = s.api_key]
    ELSE cfg
SyncApiKey(cfg, s) ==
    IF s.api_key # None
    THEN [cfg EXCEPT !["GOOGLE_API_KEY"] = s.api_key,
                     !["OPENAI_API_KEY"] = s.api_key]
    ELSE cfg

\* app.config['DEFAULT_RESOLUTION'] = ...; app.config['DEFAULT_ASPECT_RATIO'] = ...
SyncImageWrongKey(cfg, s) ==
    [cfg EXCEPT !["UPLOAD_FOLDER"] = s.image_resolution,
                !["DEFAULT_ASPECT_RATIO"] = s.image_aspect_ratio]
SyncImageIfSet(cfg, s) ==
    [cfg EXCEPT !["DEFAULT_RESOLUTION"] =
                    IF Truthy(s.image_resolution) THEN s.image_resolution ELSE @,
                !["DEFAULT_ASPECT_RATIO"] =
                    IF Truthy(s.image_aspect_ratio) THEN s.image_aspect_ratio ELSE @]
SyncImage(cfg, s) ==
    [cfg EXCEPT !["DEFAULT_RESOLUTION"] = s.image_resolution,
                !["DEFAULT_ASPECT_RATIO"] = s.image_aspect_ratio]

\* app.config['MAX_DESCRIPTION_WORKERS'] = ...; app.config['MAX_IMAGE_WORKERS'] = ...
SyncWorkers(cfg, s) ==
    [cfg EXCEPT !["MAX_DESCRIPTION_WORKERS"] = s.max_description_workers,
                !["MAX_IMAGE_WORKERS"] = s.max_image_workers]

\* the body of the try block after the row was read, top to bottom
LoadedConfig(cfg, s) ==
    SyncWorkers(SyncImage(SyncApiKey(SyncApiBase(SyncProviderFormat(cfg, s), s), s), s), s)

\* the try block up to and including its n-th group of assignments
LoadedPrefix(cfg, s, n) ==
    CASE n = 0 -> cfg
      [] n = 1 -> SyncProviderFormat(cfg, s)
      [] n = 2 -> SyncApiBase(SyncProviderFormat(cfg, s), s)
      [] n = 3 -> SyncApiKey(SyncApiBase(SyncProviderFormat(cfg, s), s), s)
      [] n = 4 -> SyncImage(SyncApiKey(SyncApiBase(SyncProviderFormat(cfg, s), s), s), s)
      [] OTHER -> LoadedConfig(cfg, s)

\* where the try block reads the store: the call of Settings.get_settings()
\* and the first access of an attribute of the row, which loads the row's
\* attributes when they are not loaded; later accesses read the loaded row
ReadPoints == {"get_settings", "first_attribute"}

\* the read points a store error can occur at: the query of get_settings()
\* is the one that fails while the table lacks a column of the model
FailPoints ==
    IF tableExists /\ ModelColumns \subseteq columns THEN ReadPoints
    ELSE {"get_settings"}

\* how many groups of assignments to app.config the try block has completed
\* when it reaches a read point: both come before the first assignment
WritesBeforeOne(point) == IF point = "first_attribute" THEN 1 ELSE 0
WritesBefore(point) ==
    CASE point = "get_settings" -> 0
      [] point = "first_attribute" -> 0

\* the log records of the try block
LoadLogs(s) ==
    (IF Truthy(s.ai_provider_format)
     THEN {<<"info", "Loaded AI_PROVIDER_FORMAT from settings", "">>} ELSE {})
    \cup (IF s.api_base_url = None THEN {}
          ELSE IF Truthy(s.api_base_url)
               THEN {<<"info", "Loaded API_BASE from settings", "">>}
               ELSE {<<"info", "API_BASE is empty in settings", "">>})
    \cup (IF s.api_key = None THEN {}
          ELSE IF Truthy(s.api_key)
               THEN {<<"info", "Loaded API key from settings", "">>}
               ELSE {<<"info", "API key is empty in settings", "">>})
    \cup {<<"info", "Loaded image settings", "">>,
          <<"info", "Loaded worker settings", "">>}

\* _load_settings_to_config(app), the whole call
LoadSettings ==
    /\ pc = "load_settings"
    /\ cfgBefore' = config
    /\ loads' = loads + 1
    /\ \E out \in ReadOutcomes :
         /\ readFailed' = (out # "ok")
         /\ calls' = calls \o << "load:enter",
                                 IF out = "ok" \/ Catches(LoadHandler, out)
                                 THEN "load:return" ELSE "load:raise" >>
         /\ IF out = "ok"
            THEN /\ config' = LoadedConfig(config, settings)
                 /\ logs' = logs \cup LoadLogs(settings)
                 /\ Goto("returned", out, "get_settings")
            ELSE \E point \in FailPoints :
                 /\ config' = LoadedPrefix(config, settings, WritesBefore(point))
                 /\ IF Catches(LoadHandler, out)
                    THEN /\ logs' = logs \cup
                              {<<"warning", "Could not load settings from database", point>>}
                         /\ Goto("returned", out, point)
                    ELSE /\ logs' = logs
                         /\ Goto("raised", out, point)
    /\ UNCHANGED << entry, storeVars, ensureVars, settings, envCfg, peer,
                    response, conns >>

\* a settings update: the row is rewritten and the loader is called again on
\* the same app.config
UpdateSettings ==
    /\ entry = "_load_settings_to_config"
    /\ pc = "returned"
    /\ loads < MaxLoads
    /\ settings' \in {r \in SettingsRows : r.output_language = settings.output_language}
    /\ pc' = "load_settings"
    /\ cfgBefore' = config
    /\ readFailed' = FALSE
    /\ UNCHANGED << entry, raised, storeVars, ensureVars, config, envCfg, loads,
                    calls, peer, response, conns, logs >>

(***************************************************************************)
(* create_app                                                              *)
(***************************************************************************)
\* db.create_all(): creates the tables that do not exist yet
CreateAllOutcomes == {"ok", "OperationalError"}

\* try: db.create_all(); _ensure_settings_columns(app) is entered
CreateAll ==
    /\ entry = "create_app"
    /\ pc = "create_all"
    /\ \E out \in CreateAllOutcomes :
         IF out = "ok"
         THEN /\ tableExists' = TRUE
              /\ columns' = IF tableExists THEN columns ELSE ModelColumns
              /\ colTypes' = IF tableExists THEN colTypes
                             ELSE [c \in ModelColumns |-> ColumnType(c)]
              /\ pending' = pending
              /\ calls' = << "create_all:ok", "ensure:enter" >>
              /\ logs' = logs \cup
                   {<<"info", "Database tables created/verified successfully", "">>}
              /\ EnsureCalled(columns')
              /\ pc' = "ensure_inspect"
              /\ UNCHANGED raised
         ELSE /\ Goto(InitRaises(out), out, "create_all")
              /\ logs' = logs \cup
                   (IF Catches(CreateAppHandler, out)
                    THEN {<<"error", "Database initialization failed", "">>}
                    ELSE {})
              /\ calls' = << "create_all:failed" >>
              /\ UNCHANGED << storeVars, ensureVars >>
    /\ UNCHANGED << entry, settings, loadVars, peer, response, conns >>

\* GET /api/output-language, served once create_app has returned the app
GetOutputLanguage ==
    /\ entry = "create_app"
    /\ pc = "returned"
    /\ \E out \in ReadOutcomes :
         IF out = "ok"
         THEN /\ response' = [status |-> "returned", readFailed |-> FALSE,
                              language |-> settings.output_language]
              /\ logs' = logs
         ELSE IF Catches(LanguageHandler, out)
              THEN /\ response' = [status |-> "returned", readFailed |-> TRUE,
                                   language |-> ConfigOutputLanguage]
                   /\ logs' = logs \cup
                        {<<"warning", "Failed to load output language from settings", "">>}
              ELSE /\ response' = [status |-> "raised", readFailed |-> TRUE,
                                   language |-> ""]
                   /\ logs' = logs
    /\ UNCHANGED << entry, pc, raised, storeVars, ensureVars, settings,
                    loadVars, calls, peer, conns >>

(***************************************************************************)
(* set_sqlite_pragma, the listener of the Engine's "connect" event         *)
(***************************************************************************)
\* PRAGMA busy_timeout=30000
BusyTimeoutMs == 30000

\* the three statements of the try block, in order, and what each sets
Pragmas ==
    << [sql |-> "PRAGMA journal_mode=WAL", name |-> "journal_mode", value |-> "wal"],
       [sql |-> "PRAGMA synchronous=NORMAL", name |-> "synchronous", value |-> "normal"],
       [sql |-> "PRAGMA busy_timeout=30000", name |-> "busy_timeout", value |-> BusyTimeoutMs] >>

\* isinstance(dbapi_conn, sqlite3.Connection)
IsSqliteAlways(kind) == TRUE
IsSqlite(kind) == kind = "sqlite3"

\* a connection the pool has not created yet
NoConnection ==
    [state |-> "absent", kind |-> "", next |-> 1, pending |-> NoPending,
     failedAt |-> 0, cursors |-> 0, cursorOpen |-> FALSE,
     journal_mode |-> "", synchronous |-> "", busy_timeout |-> 0,
     stmts |-> <<>>, uses |-> 0]

\* a connection as the driver hands it to the listener; the journal mode is
\* a property of the database file, so a file already in WAL mode opens in it
NewConnection(kind, journal) ==
    [NoConnection EXCEPT !.state = "hook", !.kind = kind,
                         !.journal_mode = journal, !.synchronous = "full"]

\* cursor.execute(p) succeeded on connection cn
Executed(cn, p) ==
    [cn EXCEPT ![p.name] = p.value,
               !.stmts = Append(@, [by |-> "hook", sql |-> p.sql])]

\* cursor.execute(...): done, or the driver's error
PragmaOutcomes == {"ok", "sqlite3.OperationalError"}

\* the pool creates connection c and fires the "connect" event
Connect(c) ==
    /\ entry = "connect"
    /\ conns[c].state = "absent"
    /\ \E kind \in {"sqlite3", "other"}, journal \in {"delete", "wal"} :
         conns' = [conns EXCEPT ![c] = NewConnection(kind, journal)]
    /\ UNCHANGED << entry, pc, raised, storeVars, ensureVars, settings,
                    loadVars, calls, peer, response, logs >>

\* if not isinstance(...): return;  cursor = dbapi_conn.cursor()
HookEnter(c) ==
    /\ conns[c].state = "hook"
    /\ conns' = [conns EXCEPT ![c] =
                   IF IsSqlite(conns[c].kind)
                   THEN [@ EXCEPT !.state = "try", !.next = 1,
                                  !.cursors = @ + 1, !.cursorOpen = TRUE]
                   ELSE [@ EXCEPT !.state = "released"]]
    /\ UNCHANGED << entry, pc, raised, storeVars, ensureVars, settings,
                    loadVars, calls, peer, response, logs >>

\* the next cursor.execute of the try block
HookPragma(c) ==
    /\ conns[c].state = "try"
    /\ \E out \in PragmaOutcomes :
         LET cn == conns[c]
             n == cn.next
         IN  IF out = "ok"
             THEN conns' = [conns EXCEPT ![c] =
                      [Executed(cn, Pragmas[n]) EXCEPT
                          !.next = n + 1,
                          !.state = IF n = Len(Pragmas) THEN "finally" ELSE "try"]]
             ELSE conns' = [conns EXCEPT ![c] =
                      [cn EXCEPT !.failedAt = n,
                                 !.state = "finally",
                                 !.pending = IF Catches(HookHandler, out)
                                             THEN NoPending ELSE out]]
    /\ UNCHANGED << entry, pc, raised, storeVars, ensureVars, settings,
                    loadVars, calls, peer, response, logs >>

\* finally: cursor.close(); then the listener returns, or the pending
\* exception leaves it and the pool gives the connection up
HookFinally(c) ==
    /\ conns[c].state = "finally"
    /\ conns' = [conns EXCEPT ![c] =
                   [@ EXCEPT !.cursorOpen = FALSE,
                             !.state = IF conns[c].pending = NoPending
                                       THEN "released" ELSE "failed"]]
    /\ UNCHANGED << entry, pc, raised, storeVars, ensureVars, settings,
                    loadVars, calls, peer, response, logs >>

\* a request handler runs a statement on a connection the pool released
UseConnection(c) ==
    /\ conns[c].state = "released"
    /\ conns[c].uses < MaxUse
    /\ conns' = [conns EXCEPT ![c] =
                   [@ EXCEPT !.uses = @ + 1,
                             !.stmts = Append(@, [by |-> "app", sql |-> "SELECT"])]]
    /\ UNCHANGED << entry, pc, raised, storeVars, ensureVars, settings,
                    loadVars, calls, peer, response, logs >>

(***************************************************************************)
(* Initial states and specifications.                                      *)
(***************************************************************************)
\* there was no previous run
NoRun == [inspected |-> FALSE, failed |-> {}]

\* the store as the process finds it: no transaction is open
StoreIdle == pending = {} /\ colTypes = TypesOf(columns)

\* there is no second process
NoPeer ==
    [pc |-> "absent", existing |-> {}, idx |-> 1, alters |-> <<>>,
     failed |-> {}, otherFailed |-> {}, inspected |-> FALSE]

\* no run of _ensure_settings_columns yet
EnsureIdle ==
    /\ existing = {} /\ idx = 1 /\ run = 0 /\ startCols = {} /\ initCols = {}
    /\ inspected = FALSE /\ alters = <<>> /\ commits = 0 /\ failed = {}
    /\ otherFailed = {} /\ prev = NoRun

\* the first run of _ensure_settings_columns has just been entered
EnsureEntered ==
    /\ existing = {} /\ idx = 1 /\ run = 1 /\ startCols = columns
    /\ initCols = columns /\ inspected = FALSE /\ alters = <<>> /\ commits = 0
    /\ failed = {} /\ otherFailed = {} /\ prev = NoRun

\* _load_settings_to_config was never called: app.config is as Config built it
LoadIdle == cfgBefore = config /\ readFailed = FALSE /\ envCfg = config /\ loads = 0

NoResponse == [status |-> "none", readFailed |-> FALSE, language |-> ""]

NoConnections == conns = [c \in 1..MaxConns |-> NoConnection]

\* create_app, at `with app.app_context():`
Init ==
    /\ entry = "create_app" /\ pc = "create_all" /\ raised = NoException
    /\ tableExists \in BOOLEAN
    /\ columns \in IF tableExists
                   THEN {BaseColumns \cup S : S \in SUBSET RequiredSet}
                   ELSE {{}}
    /\ StoreIdle
    /\ EnsureIdle
    /\ calls = <<>> /\ peer = NoPeer
    /\ settings \in {r \in SettingsRows :
                       /\ r.ai_provider_format = "openai"
                       /\ r.api_base_url = None
                       /\ r.api_key = "db-k"
                       /\ r.image_resolution = "2K"}
    /\ config = EnvSupplied
    /\ LoadIdle
    /\ response = NoResponse
    /\ NoConnections
    /\ logs = {}

Next == CreateAll \/ Inspect \/ ColumnStep \/ LoadSettings \/ GetOutputLanguage

Spec == Init /\ [][Next]_vars

\* _ensure_settings_columns called on an existing settings table
ConvergeInit ==
    /\ entry = "_ensure_settings_columns" /\ pc = "ensure_inspect"
    /\ raised = NoException
    /\ tableExists = TRUE
    /\ columns \in TableShapes
    /\ StoreIdle
    /\ EnsureEntered
    /\ calls = << "ensure:enter" >> /\ peer = NoPeer
    /\ settings \in {r \in SettingsRows :
                       /\ r.ai_provider_format = "openai"
                       /\ r.api_base_url = None
                       /\ r.api_key = "db-k"
                       /\ r.image_resolution = "2K"
                       /\ r.output_language = "zh"}
    /\ config = EnvSupplied
    /\ LoadIdle
    /\ response = NoResponse
    /\ NoConnections
    /\ logs = {}

ConvergeNext == Inspect \/ ColumnStep \/ ConvergeAgain

ConvergeSpec == ConvergeInit /\ [][ConvergeNext]_vars

\* two processes have entered _ensure_settings_columns on the same table
ConcurrentInit ==
    /\ entry = "_ensure_settings_columns" /\ pc = "ensure_inspect"
    /\ raised = NoException
    /\ tableExists = TRUE
    /\ columns \in {BaseColumns \cup S : S \in SUBSET RequiredSet}
    /\ Cardinality(RequiredSet \ columns) <= MaxMissing
    /\ StoreIdle
    /\ EnsureEntered
    /\ calls = << "ensure:enter" >> /\ peer = PeerEntered
    /\ settings \in {r \in SettingsRows :
                       /\ r.ai_provider_format = "openai"
                       /\ r.api_base_url = None
                       /\ r.api_key = "db-k"
                       /\ r.image_resolution = "2K"
                       /\ r.output_language = "zh"}
    /\ config = EnvSupplied
    /\ LoadIdle
    /\ response = NoResponse
    /\ NoConnections
    /\ logs = {}

ConcurrentNext == Inspect \/ ColumnStep \/ PeerInspect \/ PeerColumnStep

ConcurrentSpec == ConcurrentInit /\ [][ConcurrentNext]_vars

\* _load_settings_to_config called on a converged table
ResolverInit ==
    /\ entry = "_load_settings_to_config" /\ pc = "load_settings"
    /\ raised = NoException
    /\ tableExists = TRUE
    /\ columns = ModelColumns
    /\ StoreIdle
    /\ EnsureIdle
    /\ calls = <<>> /\ peer = NoPeer
    /\ settings \in {r \in SettingsRows : r.output_language = "zh"}
    /\ config \in EnvConfigs
    /\ LoadIdle
    /\ response = NoResponse
    /\ NoConnections
    /\ logs = {}

ResolverNext == LoadSettings \/ UpdateSettings

ResolverSpec == ResolverInit /\ [][ResolverNext]_vars

\* the pool creating connections for concurrent request handlers
TunerInit ==
    /\ entry = "connect" /\ pc = "serving" /\ raised = NoException
    /\ tableExists = TRUE
    /\ columns = ModelColumns
    /\ StoreIdle
    /\ EnsureIdle
    /\ calls = <<>> /\ peer = NoPeer
    /\ settings \in {r \in SettingsRows :
                       /\ r.ai_provider_format = "openai"
                       /\ r.api_base_url = None
                       /\ r.api_key = "db-k"
                       /\ r.image_resolution = "2K"
                       /\ r.output_language = "zh"}
    /\ config = EnvSupplied
    /\ LoadIdle
    /\ response = NoResponse
    /\ NoConnections
    /\ logs = {}

TunerNext ==
    \E c \in 1..MaxConns :
        Connect(c) \/ HookEnter(c) \/ HookPragma(c) \/ HookFinally(c) \/ UseConnection(c)

TunerSpec == TunerInit /\ [][TunerNext]_vars

(***************************************************************************)
(* Properties of _ensure_settings_columns (checked under ConvergeSpec).    *)
(***************************************************************************)
\* the columns the current run issued an ALTER TABLE for
AltersSet == {alters[i] : i \in 1..Len(alters)}

\* the required columns the table lacked when the current run began
MissingAtStart == RequiredSet \ initCols

\* the previous run inspected the schema and none of its additions failed
PrevComplete == run >= 2 /\ prev.inspected /\ prev.failed = {}

\* the current run wrote nothing: no ALTER TABLE, no commit, same columns
NoWrites == alters = <<>> /\ commits = 0 /\ columns = initCols

\* C1, as amended: when the first run's schema inspection succeeded and none
\* of its column additions failed, a second run made right after it issues no
\* ALTER TABLE and no commit, and leaves the table's columns unchanged.
C1_SecondRunWritesNothing == PrevComplete => NoWrites

\* a second run has returned after a first run that added columns
C1_Witness ==
    /\ PrevComplete /\ pc = "returned" /\ inspected
    /\ startCols # columns

\* C1, as stated: whatever the outcome of the first run's column additions,
\* the second run issues no write and leaves the columns unchanged.
C1_AnyFirstRunOutcome == (run >= 2 /\ prev.inspected) => NoWrites

\* the run added exactly the required columns the table lacked
AddedExactlyMissing ==
    /\ AltersSet = MissingAtStart
    /\ Len(alters) = Cardinality(MissingAtStart)
    /\ columns = initCols \cup RequiredSet

\* C2, as amended: for every subset of the required columns already on the
\* table (plus unrelated columns), a run whose schema inspection succeeds and
\* in which no addition fails issues ADD COLUMN for exactly the required
\* columns the table lacked, once each, and the table ends with its initial
\* columns united with the required ones.
C2_AddsExactlyMissing ==
    (pc = "returned" /\ inspected /\ failed = {}) => AddedExactlyMissing

\* a run on a table with an unrelated column and some, not all, of the
\* required columns has added the others
C2_Witness ==
    /\ pc = "returned" /\ run = 1 /\ inspected /\ failed = {}
    /\ "legacy_note" \in initCols
    /\ "output_language" \in initCols
    /\ Len(alters) >= 2

\* C2, as stated: whenever no column addition fails, the run adds exactly the
\* required columns the table lacked.
C2_WheneverNoAdditionFails ==
    (tableExists /\ pc = "returned" /\ failed = {}) => AddedExactlyMissing

\* C3: when the addition of a missing column C fails, every other missing
\* column, declared before or after C, is still attempted in the same run
\* and, unless its own addition fails, added: afterwards the required columns
\* the table lacks are exactly those whose addition failed, so C alone when
\* it is the one that failed.
C3_FailureIsIsolated ==
    (pc = "returned" /\ failed # {}) =>
        /\ AltersSet = MissingAtStart
        /\ RequiredSet \ columns = failed
        /\ \A c \in RequiredSet : failed = {c} => RequiredSet \ columns = {c}

\* the third of seven missing columns failed, the six others were added
C3_Witness ==
    /\ pc = "returned" /\ run = 1
    /\ MissingAtStart = RequiredSet
    /\ failed = {"mineru_token"}
    /\ Len(alters) = Len(required_columns)
    /\ commits = Len(required_columns) - 1

\* C13: every column addition is a transaction of its own: an addition that
\* succeeded is committed before the next column is attempted, an addition
\* that failed rolls back that attempt only, so that every column committed
\* earlier in the run stays on the table, and no single-column failure makes
\* _ensure_settings_columns raise.
C13_OneTransactionPerColumn ==
    /\ pending = {}
    /\ commits = Cardinality(AltersSet \ failed)
    /\ columns = initCols \cup (AltersSet \ failed)
    /\ failed # {} => (pc # "raised" /\ raised = NoException)

\* the second addition of a run failed between two that were committed
C13_Witness ==
    /\ pc = "returned" /\ Len(alters) >= 3
    /\ alters[1] \in columns /\ alters[2] \in failed /\ alters[3] \in columns
    /\ alters[2] \notin columns /\ commits = Len(alters) - 1

\* C14: across any sequence of runs with any pattern of failing additions,
\* the table's column set never shrinks, no column that was on the table is
\* renamed or changes its type, the table is neither created nor dropped, and
\* the only schema statements issued are ADD COLUMN statements on the
\* settings table for required columns the run observed to be missing.
C14_StrictlyAdditive ==
    /\ tableExists
    /\ startCols \subseteq initCols /\ initCols \subseteq columns
    /\ \A c \in startCols : colTypes[c] = ColumnType(c)
    /\ \A i \in 1..Len(alters) :
          inspected /\ alters[i] \in RequiredSet \ existing
    /\ columns \ initCols \subseteq AltersSet
    /\ \A c \in columns \ startCols : colTypes[c] = ColumnType(c)

\* two runs, each with a failed addition, on a table with an unrelated
\* column: the table kept every column and gained some
C14_Witness ==
    /\ pc = "returned" /\ run = 2
    /\ prev.failed # {} /\ failed # {}
    /\ "legacy_note" \in startCols
    /\ initCols # startCols /\ columns # initCols

(***************************************************************************)
(* Properties of two concurrent runs (checked under ConcurrentSpec).       *)
(***************************************************************************)
\* the columns the second process issued an ALTER TABLE for
PeerAltersSet == {peer.alters[i] : i \in 1..Len(peer.alters)}

\* the columns each process added
AddedHere == AltersSet \ failed
AddedByPeer == PeerAltersSet \ peer.failed

\* both runs are over
BothOver == pc \in {"returned", "raised"} /\ peer.pc \in {"returned", "raised"}

\* no addition failed for another reason than the column being there already
OnlyDuplicatesFailed == otherFailed = {} /\ peer.otherFailed = {}

\* neither run has raised, and a run that is not over can take a step
NeitherRaises ==
    /\ pc # "raised" /\ peer.pc # "raised"
    /\ pc # "returned" => ENABLED (Inspect \/ ColumnStep)
    /\ peer.pc # "returned" => ENABLED (PeerInspect \/ PeerColumnStep)

\* no column was added twice, and none that was on the table
NoneAddedTwice ==
    /\ AddedHere \cap AddedByPeer = {}
    /\ (AddedHere \cup AddedByPeer) \cap initCols = {}
    /\ columns = initCols \cup AddedHere \cup AddedByPeer

\* C19, as amended: when two processes run _ensure_settings_columns on the
\* same store at the same time, then under every interleaving of their
\* schema inspections and column additions both runs end without raising
\* and no column is added twice; and when the schema inspection of at least
\* one of them succeeded and no addition failed for another reason than the
\* column existing already, the table ends with every required column.
C19_ConcurrentRunsSafe ==
    /\ NeitherRaises
    /\ NoneAddedTwice
    /\ (BothOver /\ (inspected \/ peer.inspected) /\ OnlyDuplicatesFailed) =>
          RequiredSet \subseteq columns

\* both processes saw the same three columns missing; each added some, and
\* each was refused a column the other had added in between
C19_Witness ==
    /\ BothOver /\ OnlyDuplicatesFailed
    /\ Cardinality(MissingAtStart) = 3
    /\ existing = initCols /\ peer.existing = initCols
    /\ AddedHere # {} /\ AddedByPeer # {}
    /\ failed # {} /\ peer.failed # {}
    /\ RequiredSet \subseteq columns

\* C19, as stated: whenever no addition fails for another reason than the
\* column existing already, the table ends with every required column.
C19_CompleteWheneverOnlyDuplicatesFail ==
    /\ NeitherRaises
    /\ NoneAddedTwice
    /\ (BothOver /\ OnlyDuplicatesFailed) => RequiredSet \subseteq columns

(***************************************************************************)
(* Properties of _load_settings_to_config (checked under ResolverSpec).    *)
(***************************************************************************)
\* every config slot of the family holds value v
SlotsHold(slots, v) == \A k \in slots : config[k] = v

\* every config slot of the family holds what it held before the call
SlotsKept(slots) == \A k \in slots : config[k] = cfgBefore[k]

\* null keeps the environment's value, "" and any other value replace it
TriState(persisted, slots) ==
    /\ persisted = None => SlotsKept(slots)
    /\ persisted = "" => SlotsHold(slots, "")
    /\ (persisted # None /\ persisted # "") => SlotsHold(slots, persisted)

C5_ReadFailureLeavesConfig ==
    readFailed => (pc = "returned" /\ raised = NoException /\ config = cfgBefore)

\* the read failed for a row that would have changed the configuration
C5_Witness ==
    /\ readFailed /\ pc = "returned"
    /\ settings.api_key = "db-k"
    /\ LoadedConfig(cfgBefore, settings) # cfgBefore

\* every config slot of the family holds what the environment supplied
SlotsFromEnv(slots) == \A k \in slots : config[k] = envCfg[k]

\* null gives the environment's value, "" and any other value replace it
TriStateEnv(persisted, slots) ==
    /\ persisted = None => SlotsFromEnv(slots)
    /\ persisted = "" => SlotsHold(slots, "")
    /\ (persisted # None /\ persisted # "") => SlotsHold(slots, persisted)

\* C12: after any sequence of settings updates, each followed by a run of the
\* loader on the same app.config, the effective API key and API base URL are
\* determined by the row of the last run alone: null gives the environment's
\* value, the empty string gives the empty string, a value v gives v,
\* whatever earlier runs wrote.
C12_LastRowAlone ==
    (pc = "returned" /\ ~readFailed /\ loads >= 1) =>
        /\ TriStateEnv(settings.api_key, {"GOOGLE_API_KEY", "OPENAI_API_KEY"})
        /\ TriStateEnv(settings.api_base_url, {"GOOGLE_API_BASE", "OPENAI_API_BASE"})

\* the last run of the loader failed at read point p
FailedAt(p) ==
    /\ readFailed
    /\ <<"warning", "Could not load settings from database", p>> \in logs

\* C15: a run of the loader in which a store error occurs, while the row is
\* read or while its attributes are, leaves every key of app.config at its
\* value from before the run; a run ends either with no key changed or with
\* the whole row applied, never with some keys from the row and others left
\* at their earlier values.
C15_AllOrNothing ==
    (loads >= 1 /\ pc \in {"returned", "raised"}) =>
        IF readFailed
        THEN \A k \in ConfigKeys : config[k] = cfgBefore[k]
        ELSE config = LoadedConfig(cfgBefore, settings)

\* the row was read, loading its attributes failed, and the row would have
\* changed the provider format and the image defaults
C15_Witness ==
    /\ pc = "returned" /\ loads = 1 /\ FailedAt("first_attribute")
    /\ ~FailedAt("get_settings")
    /\ settings.ai_provider_format = "openai"
    /\ cfgBefore["AI_PROVIDER_FORMAT"] # "openai"
    /\ settings.image_resolution # cfgBefore["DEFAULT_RESOLUTION"]

\* the last run of the loader read the row and applied it
LoadSucceeded == pc = "returned" /\ loads >= 1 /\ ~readFailed

\* C16: after a run of the loader in which the persisted API key is not
\* null, GOOGLE_API_KEY and OPENAI_API_KEY equal each other and the
\* persisted key; after a run in which the persisted API base URL is not
\* null, GOOGLE_API_BASE and OPENAI_API_BASE equal each other and the
\* persisted base URL.
C16_OneCredentialEverySlot ==
    LoadSucceeded =>
        /\ settings.api_key # None =>
              /\ config["GOOGLE_API_KEY"] = config["OPENAI_API_KEY"]
              /\ config["OPENAI_API_KEY"] = settings.api_key
        /\ settings.api_base_url # None =>
              /\ config["GOOGLE_API_BASE"] = config["OPENAI_API_BASE"]
              /\ config["OPENAI_API_BASE"] = settings.api_base_url

\* the environment gave each provider its own key and its own base URL; the
\* run made both keys the persisted key and both base URLs the persisted one
C16_Witness ==
    /\ LoadSucceeded
    /\ cfgBefore["GOOGLE_API_KEY"] # cfgBefore["OPENAI_API_KEY"]
    /\ cfgBefore["GOOGLE_API_BASE"] # cfgBefore["OPENAI_API_BASE"]
    /\ settings.api_key = "db-k" /\ config["GOOGLE_API_KEY"] = "db-k"
    /\ settings.api_base_url = "https://db.example/v1"
    /\ config["OPENAI_API_BASE"] = "https://db.example/v1"

\* C17: after a successful run of the loader, AI_PROVIDER_FORMAT equals the
\* persisted provider format when that is non-empty, and its value from
\* before the run when the persisted value is null or the empty string.
C17_ProviderFormatPrecedence ==
    LoadSucceeded =>
        config["AI_PROVIDER_FORMAT"] =
            IF settings.ai_provider_format \notin {None, ""}
            THEN settings.ai_provider_format
            ELSE cfgBefore["AI_PROVIDER_FORMAT"]

\* a first run set the format from the row; after the row's format was
\* emptied a second run kept it
C17_Witness ==
    /\ LoadSucceeded /\ loads = 2
    /\ settings.ai_provider_format = ""
    /\ envCfg["AI_PROVIDER_FORMAT"] = "gemini"
    /\ cfgBefore["AI_PROVIDER_FORMAT"] = "openai"
    /\ config["AI_PROVIDER_FORMAT"] = "openai"

\* C18: after every successful run of the loader, DEFAULT_RESOLUTION,
\* DEFAULT_ASPECT_RATIO, MAX_DESCRIPTION_WORKERS and MAX_IMAGE_WORKERS equal
\* the row's image_resolution, image_aspect_ratio, max_description_workers
\* and max_image_workers, whatever the row holds and whatever the
\* environment supplied.
C18_ImageAndWorkersCopied ==
    LoadSucceeded =>
        /\ config["DEFAULT_RESOLUTION"] = settings.image_resolution
        /\ config["DEFAULT_ASPECT_RATIO"] = settings.image_aspect_ratio
        /\ config["MAX_DESCRIPTION_WORKERS"] = settings.max_description_workers
        /\ config["MAX_IMAGE_WORKERS"] = settings.max_image_workers

\* a row without image defaults and with no workers replaced the
\* environment's values
C18_Witness ==
    /\ LoadSucceeded
    /\ cfgBefore["DEFAULT_RESOLUTION"] = "1K" /\ cfgBefore["MAX_IMAGE_WORKERS"] = 4
    /\ settings.image_resolution = None /\ config["DEFAULT_RESOLUTION"] = None
    /\ config["DEFAULT_ASPECT_RATIO"] = ""
    /\ config["MAX_DESCRIPTION_WORKERS"] = 0 /\ config["MAX_IMAGE_WORKERS"] = 0

(***************************************************************************)
(* Properties of set_sqlite_pragma (checked under TunerSpec).              *)
(***************************************************************************)
ConnIds == 1..MaxConns

\* the listener has finished on connection c, one way or the other
HookOver(c) == conns[c].state \in {"released", "failed"}

\* C6: when applying one of the three pragmas fails on a new sqlite3
\* connection, the listener does not raise, the failure is logged and the
\* connection is still released for use.
C6_PragmaFailureNotFatal ==
    \A c \in ConnIds :
        (conns[c].failedAt # 0 /\ HookOver(c)) =>
            /\ conns[c].state = "released"
            /\ \E l \in logs : l[1] \in {"warning", "error"}

\* the statements a tuned connection starts with
TunedPrefix ==
    << "PRAGMA journal_mode=WAL", "PRAGMA synchronous=NORMAL",
       "PRAGMA busy_timeout=30000" >>

\* connection c is in use: released by the pool, or already used
InUse(c) ==
    \/ conns[c].state = "released"
    \/ \E i \in 1..Len(conns[c].stmts) : conns[c].stmts[i].by = "app"

\* C7: under every interleaving of connection creations, every sqlite3
\* connection released for use has had journal_mode=WAL, synchronous=NORMAL
\* and busy_timeout=30000 applied, in that order and before any other
\* statement, so its journal mode reads back as WAL and its busy timeout as
\* 30000 ms.
C7_ReleasedIsTuned ==
    \A c \in ConnIds :
        (conns[c].kind = "sqlite3" /\ InUse(c)) =>
            /\ Len(conns[c].stmts) >= Len(TunedPrefix)
            /\ \A i \in 1..Len(TunedPrefix) :
                 conns[c].stmts[i] = [by |-> "hook", sql |-> TunedPrefix[i]]
            /\ conns[c].journal_mode = "wal"
            /\ conns[c].synchronous = "normal"
            /\ conns[c].busy_timeout = 30000

\* two sqlite3 connections were created, tuned, released and used
C7_Witness ==
    \A c \in {1, 2} :
        /\ conns[c].kind = "sqlite3" /\ conns[c].state = "released"
        /\ conns[c].uses = 1 /\ Len(conns[c].stmts) = 4

\* C9: when the listener fires for a connection that is not a sqlite3
\* connection, it executes no statement on it, opens no cursor and raises
\* nothing.
C9_OtherConnectionsUntouched ==
    \A c \in ConnIds :
        conns[c].kind = "other" =>
            /\ conns[c].cursors = 0 /\ ~conns[c].cursorOpen
            /\ \A i \in 1..Len(conns[c].stmts) : conns[c].stmts[i].by # "hook"
            /\ conns[c].state \in {"hook", "released"}
            /\ conns[c].failedAt = 0 /\ conns[c].pending = NoPending
            /\ conns[c].journal_mode \in {"delete", "wal"}
            /\ conns[c].busy_timeout = 0

\* the listener has returned on a connection of another driver
C9_Witness ==
    \E c \in ConnIds :
        /\ conns[c].kind = "other" /\ conns[c].state = "released"
        /\ conns[c].uses = 1

(***************************************************************************)
(* Properties of create_app and its routes (checked under Spec).           *)
(***************************************************************************)
\* create_app has a step to take
StartupCanStep == ENABLED (CreateAll \/ Inspect \/ ColumnStep \/ LoadSettings)

\* C8: whatever fails among schema inspection, the column additions and the
\* settings read, create_app goes on to its end and returns the app; only a
\* failure of db.create_all() may abort it.
C8_StartupNeverAborted ==
    /\ pc = "raised" => raised.origin = "create_all"
    /\ pc \in {"returned", "raised"} \/ StartupCanStep

\* create_app returned although a column addition and the settings read failed
C8_Witness ==
    /\ entry = "create_app" /\ pc = "returned"
    /\ failed # {} /\ readFailed

IsPrefix(s, t) == Len(s) <= Len(t) /\ s = SubSeq(t, 1, Len(s))

\* the calls of a startup whose db.create_all() succeeded
StartupFull ==
    << "create_all:ok", "ensure:enter", "ensure:return",
       "load:enter", "load:return" >>

\* the calls of a startup whose db.create_all() raised
StartupSkipped == << "create_all:failed", "load:enter", "load:return" >>

\* C11, as amended: in every execution of create_app, db.create_all, then
\* _ensure_settings_columns, then _load_settings_to_config each run at most
\* once and in that order; when db.create_all succeeded the loader is entered
\* only after _ensure_settings_columns has returned (also when its schema
\* inspection failed), and when db.create_all raised
\* _ensure_settings_columns is skipped and the loader runs all the same.
C11_StartupOrder ==
    IsPrefix(calls, StartupFull) \/ IsPrefix(calls, StartupSkipped)

\* the loader ran after a run of the migration whose inspection failed
C11_Witness ==
    /\ calls = StartupFull /\ pc = "returned"
    /\ run = 1 /\ ~inspected /\ loads = 1

\* C11, as stated: the loader is not entered unless _ensure_settings_columns
\* has run to completion before, also when db.create_all fails.
C11_ResolverOnlyAfterConverge ==
    \A i \in 1..Len(calls) :
        calls[i] = "load:enter" =>
            \E j \in 1..(i - 1) : calls[j] = "ensure:return"

\* the keys _load_settings_to_config assigns
ResolverKeys ==
    {"AI_PROVIDER_FORMAT", "GOOGLE_API_BASE", "OPENAI_API_BASE",
     "GOOGLE_API_KEY", "OPENAI_API_KEY", "DEFAULT_RESOLUTION",
     "DEFAULT_ASPECT_RATIO", "MAX_DESCRIPTION_WORKERS", "MAX_IMAGE_WORKERS"}

\* C20: a run of _load_settings_to_config changes at most the nine keys it
\* assigns; every other key of app.config (database URI, upload folder, CORS
\* origins) keeps its value, and _ensure_settings_columns changes no key of
\* app.config at all.
C20_ResolverFrame ==
    /\ \A k \in ConfigKeys \ ResolverKeys :
          config[k] = envCfg[k] /\ config[k] = cfgBefore[k]
    /\ \A k \in ResolverKeys : config[k] # cfgBefore[k] => loads >= 1
    /\ loads = 0 => config = envCfg

\* the migration added columns, then the loader changed all it could of the
\* nine keys and nothing else
C20_Witness ==
    /\ entry = "create_app" /\ pc = "returned" /\ loads = 1 /\ ~readFailed
    /\ commits >= 1
    /\ config["GOOGLE_API_KEY"] # envCfg["GOOGLE_API_KEY"]
    /\ config["DEFAULT_RESOLUTION"] # envCfg["DEFAULT_RESOLUTION"]
    /\ config["UPLOAD_FOLDER"] = "uploads"
    /\ config["CORS_ORIGINS"] = envCfg["CORS_ORIGINS"]

====
